---- MODULE Spec2Model ----
(***************************************************************************)
(* Country ratings API (src/main.py): validation of a rating submission,   *)
(* the append of accepted submissions to the "countryrating" collection    *)
(* and the two aggregation endpoints.                                      *)
(*                                                                         *)
(* Representation.                                                         *)
(*   - A string is a sequence of Unicode code points (Latin-1 range), so   *)
(*     " F-2 " is <<32, 70, 45, 50, 32>>.                                  *)
(*   - A rating or an average is an integer number of thousandths, so 5.0  *)
(*     is 5000 and 1.667 is 1667.                                          *)
(*   - An optional integer is <<>> (None) or <<n>>.                        *)
(*   - The collection is a bag (multiset) of documents: no pipeline of the *)
(*     program reads the insertion order or the _id of a document.         *)
(*   - user_id and comment are optional, unconstrained and never read by   *)
(*     any endpoint; they are left out of the records.                     *)
(***************************************************************************)
EXTENDS Integers, Sequences, FiniteSets, Bags, TLC

VARIABLES
    db,        \* the process-wide handle imported from database: "up" or "none"
    store,     \* the documents of collection "countryrating", a bag
    lastOp,    \* the handler that served the last request
    lastArgs,  \* the raw arguments of that request
    outcome,   \* "ok", "validation_error" (422) or "http_500"
    result,    \* the response body as a sequence; <<>> for an error
    calls,     \* storage calls made while serving the last request
    raised     \* whether a storage call of the last request raised

vars == <<db, store, lastOp, lastArgs, outcome, result, calls, raised>>

(***************************************************************************)
(* Bounds and inputs                                                       *)
(***************************************************************************)
MaxStore == 3

\* Request bodies of POST /api/ratings.
SlugInputs ==
    { <<102, 45, 50>>,          \* "f-2"
      <<32, 70, 45, 50, 32>>,   \* " F-2 "
      <<114>>,                  \* "r"
      <<233>>,                  \* U+00E9, e with acute accent
      <<102, 95, 50>> }         \* "f_2"

RatingInputs == {1, 1000, 2000, 4000, 5001}

\* Inputs of the validation of CountryRatingIn taken alone: every string of at
\* most MaxSlugLen characters of Alphabet, and the request bodies above.
Alphabet == {32, 45, 50, 70, 95, 102, 201, 233}

MaxSlugLen == 2

SlugDomain ==
    SlugInputs \cup UNION { [1..n -> Alphabet] : n \in 0..MaxSlugLen }

RatingDomain == {-1000, -1, 0, 1, 2500, 4999, 5000, 5001, 6000}

LimitInputs == {<<>>, <<-5>>, <<0>>, <<1>>, <<2>>}

QuerySlugs == { <<102, 45, 50>>, <<114>>, <<233>>, <<70, 45, 50>> }

(***************************************************************************)
(* Python str methods on Latin-1 code points                               *)
(***************************************************************************)
Hyphen == 45

IsSpace(c) == c \in (9..13) \cup (28..32) \cup {133, 160}

IsAlnum(c) ==
    c \in (48..57) \cup (65..90) \cup (97..122)
          \cup {170, 178, 179, 181, 185, 186, 188, 189, 190}
          \cup ((192..255) \ {215, 247})

LowerCh(c) ==
    IF c \in (65..90) \cup ((192..222) \ {215}) THEN c + 32 ELSE c

Lower(s) == [i \in DOMAIN s |-> LowerCh(s[i])]

RECURSIVE LStrip(_)
LStrip(s) ==
    IF s # <<>> /\ IsSpace(Head(s)) THEN LStrip(Tail(s)) ELSE s

RECURSIVE RStrip(_)
RStrip(s) ==
    IF s # <<>> /\ IsSpace(s[Len(s)])
    THEN RStrip(SubSeq(s, 1, Len(s) - 1))
    ELSE s

Strip(s) == RStrip(LStrip(s))

(***************************************************************************)
(* CountryRatingIn: request validation                                     *)
(***************************************************************************)
RoundPlaces == 3
Scale == 10 ^ RoundPlaces

RatingGe == 0
RatingLe == 5

validate_slug_unnormalized(v) ==
    LET sv == Lower(Strip(v)) IN
    IF sv = <<>> \/ \E i \in DOMAIN sv : ~(IsAlnum(sv[i]) \/ sv[i] = Hyphen)
    THEN [ok |-> FALSE, value |-> <<>>]
    ELSE [ok |-> TRUE, value |-> v]

validate_slug(v) ==
    LET sv == Lower(Strip(v)) IN
    IF sv = <<>> \/ \E i \in DOMAIN sv : ~(IsAlnum(sv[i]) \/ sv[i] = Hyphen)
    THEN [ok |-> FALSE, value |-> <<>>]
    ELSE [ok |-> TRUE, value |-> sv]

rating_field_exclusive(r) == r >= RatingGe * Scale /\ r < RatingLe * Scale

rating_field(r) == r >= RatingGe * Scale /\ r <= RatingLe * Scale

CountryRatingIn(country_slug, rating) ==
    LET s == validate_slug(country_slug) IN
    IF s.ok /\ rating_field(rating)
    THEN [ok |-> TRUE, value |-> <<[country_slug |-> s.value, rating |-> rating]>>]
    ELSE [ok |-> FALSE, value |-> <<>>]

(***************************************************************************)
(* Storage collaborator (module database)                                  *)
(***************************************************************************)
\* create_document("countryrating", payload): one more copy of the document.
create_document(docs, payload) == docs (+) SetToBag({payload})

\* The identity it returns; the program only passes it on.
inserted_id(docs) == BagCardinality(docs)

Response(o, r, n, docs) ==
    [outcome |-> o, result |-> r, calls |-> n, store |-> docs]

(***************************************************************************)
(* Aggregation pipeline stages, as MongoDB evaluates them                  *)
(***************************************************************************)
\* {"$match": {"country_slug": country_slug}}
MatchStage(docs, country_slug) ==
    [d \in {x \in DOMAIN docs : x.country_slug = country_slug} |-> docs[d]]

\* One document d with k copies enters the accumulators of its group.
Accumulate(groups, d, k) ==
    IF \E g \in groups : g._id = d.country_slug
    THEN { IF g._id = d.country_slug
           THEN [g EXCEPT !.count = @ + k, !.sum = @ + k * d.rating, !.n = @ + k]
           ELSE g : g \in groups }
    ELSE groups \cup {[_id |-> d.country_slug, count |-> k,
                       sum |-> k * d.rating, n |-> k]}

RECURSIVE GroupStageOnePerDocument(_)
GroupStageOnePerDocument(docs) ==
    IF DOMAIN docs = {} THEN {}
    ELSE LET d == CHOOSE x \in DOMAIN docs : TRUE
             rest == [x \in DOMAIN docs \ {d} |-> docs[x]]
         IN  Accumulate(GroupStageOnePerDocument(rest), d, 1)

\* {"$group": {"_id": "$country_slug", "count": {"$sum": 1}, "avg": {"$avg": "$rating"}}}
\* The exact average is kept as the pair sum / n until it is rounded.
RECURSIVE GroupStage(_)
GroupStage(docs) ==
    IF DOMAIN docs = {} THEN {}
    ELSE LET d == CHOOSE x \in DOMAIN docs : TRUE
             rest == [x \in DOMAIN docs \ {d} |-> docs[x]]
         IN  Accumulate(GroupStage(rest), d, docs[d])

RoundTruncate(num, den) == {num \div den}

\* {"$round": [x, 3]} for x = num / den thousandths, num >= 0: the values the
\* stage may produce.  x is a binary double: off a decimal tie it rounds to the
\* nearest thousandth; on a decimal tie the double nearest to x lies on either
\* side of the tie (or MongoDB takes the even neighbour), so both neighbours
\* are possible outcomes.
Round(num, den) ==
    LET q == num \div den
        r == num % den
    IN  IF 2 * r < den THEN {q}
        ELSE IF 2 * r > den THEN {q + 1}
        ELSE {q, q + 1}

\* {"$project": {"_id": 0, "country_slug": "$_id", "count": 1, "avg": {"$round": ["$avg", 3]}}}
\* The sets of rows the stage may produce.
ProjectStage(groups) ==
    LET values == UNION { Round(g.sum, g.n) : g \in groups }
        choices == { f \in [groups -> values] :
                       \A g \in groups : f[g] \in Round(g.sum, g.n) }
    IN  { { [country_slug |-> g._id, count |-> g.count, avg |-> f[g]]
            : g \in groups } : f \in choices }

Orderings(S) ==
    { f \in [1..Cardinality(S) -> S] :
        \A i, j \in 1..Cardinality(S) : i # j => f[i] # f[j] }

SortStageAscending(rows) ==
    { f \in Orderings(rows) :
        \A i, j \in DOMAIN f : i < j => f[i].avg <= f[j].avg }

\* {"$sort": {"avg": -1}}: every order MongoDB may produce; rows of equal avg
\* come in any order.
SortStage(rows) ==
    { f \in Orderings(rows) :
        \A i, j \in DOMAIN f : i < j => f[i].avg >= f[j].avg }

LimitStageOneMore(rows, n) ==
    SubSeq(rows, 1, IF n + 1 < Len(rows) THEN n + 1 ELSE Len(rows))

\* {"$limit": n}, n > 0
LimitStage(rows, n) ==
    SubSeq(rows, 1, IF n < Len(rows) THEN n ELSE Len(rows))

HasLimitAboveOne(limit) == limit # <<>> /\ limit[1] # 0 /\ limit[1] > 1

\* limit and isinstance(limit, int) and limit > 0
HasLimit(limit) == limit # <<>> /\ limit[1] # 0 /\ limit[1] > 0

\* The lists db["countryrating"].aggregate(pipeline) may return in ratings_summary.
AggregateSummary(docs, limit) ==
    UNION { { IF HasLimit(limit) THEN LimitStage(sorted, limit[1]) ELSE sorted
              : sorted \in SortStage(rows) }
            : rows \in ProjectStage(GroupStage(docs)) }

\* The lists db["countryrating"].aggregate([...]) may return in
\* country_rating_stats: no row, or the row of the one group.
AggregateCountry(docs, country_slug) ==
    { IF rows = {} THEN <<>> ELSE <<CHOOSE r \in rows : TRUE>>
      : rows \in ProjectStage(GroupStage(MatchStage(docs, country_slug))) }

(***************************************************************************)
(* Handlers                                                                *)
(***************************************************************************)
CreateRatingResponse(payload, raises) ==
    IF db = "none" THEN Response("http_500", <<>>, 0, store)
    ELSE IF raises THEN Response("http_500", <<>>, 1, store)
    ELSE LET docs == create_document(store, payload)
         IN  Response("ok", <<[id |-> inserted_id(docs), ok |-> TRUE]>>, 1, docs)

RatingsSummaryResponse(rows, raises) ==
    IF db = "none" THEN Response("http_500", <<>>, 0, store)
    ELSE IF raises THEN Response("http_500", <<>>, 1, store)
    ELSE Response("ok", rows, 1, store)

CountryRatingStatsNoEmptyCase(country_slug, agg, raises) ==
    IF db = "none" THEN Response("http_500", <<>>, 0, store)
    ELSE IF raises \/ agg = <<>> THEN Response("http_500", <<>>, 1, store)
    ELSE Response("ok", <<agg[1]>>, 1, store)

CountryRatingStatsSwallowsError(country_slug, agg, raises) ==
    IF db = "none" THEN Response("http_500", <<>>, 0, store)
    ELSE IF raises \/ agg = <<>>
    THEN Response("ok", <<[country_slug |-> country_slug,
                           count |-> 0, avg |-> 0]>>, 1, store)
    ELSE Response("ok", <<agg[1]>>, 1, store)

CountryRatingStatsResponse(country_slug, agg, raises) ==
    IF db = "none" THEN Response("http_500", <<>>, 0, store)
    ELSE IF raises THEN Response("http_500", <<>>, 1, store)
    ELSE IF agg = <<>>
    THEN Response("ok", <<[country_slug |-> country_slug,
                           count |-> 0, avg |-> 0]>>, 1, store)
    ELSE Response("ok", <<agg[1]>>, 1, store)

Serve(op, args, resp, exc) ==
    /\ lastOp' = op
    /\ lastArgs' = args
    /\ outcome' = resp.outcome
    /\ result' = resp.result
    /\ calls' = resp.calls
    /\ store' = resp.store
    /\ raised' = (exc /\ resp.calls > 0)
    /\ UNCHANGED db

\* POST /api/ratings: the body is validated as CountryRatingIn, then handled.
create_rating(country_slug, rating, raises) ==
    /\ BagCardinality(store) < MaxStore
    /\ LET payload == CountryRatingIn(country_slug, rating)
           args == [country_slug |-> country_slug, rating |-> rating]
       IN  IF payload.ok
           THEN Serve("create_rating", args,
                      CreateRatingResponse(payload.value[1], raises), raises)
           ELSE Serve("create_rating", args,
                      Response("validation_error", <<>>, 0, store), FALSE)

\* GET /api/ratings/summary
ratings_summary(limit, raises) ==
    \E rows \in AggregateSummary(store, limit) :
        Serve("ratings_summary", [limit |-> limit],
              RatingsSummaryResponse(rows, raises), raises)

\* GET /api/ratings/{country_slug}
country_rating_stats(country_slug, raises) ==
    \E agg \in AggregateCountry(store, country_slug) :
        Serve("country_rating_stats", [country_slug |-> country_slug],
              CountryRatingStatsResponse(country_slug, agg, raises), raises)

\* CountryRatingIn(**lastArgs) taken alone: the body is validated, nothing is
\* stored.
validate ==
    /\ lastOp = "input"
    /\ LET payload == CountryRatingIn(lastArgs.country_slug, lastArgs.rating)
       IN  /\ lastOp' = "validate"
           /\ outcome' = IF payload.ok THEN "ok" ELSE "validation_error"
           /\ result' = payload.value
    /\ UNCHANGED <<db, store, lastArgs, calls, raised>>

Init ==
    /\ db \in {"up", "none"}
    /\ store = EmptyBag
    /\ lastOp = "start"
    /\ lastArgs = [start |-> TRUE]
    /\ outcome = "ok"
    /\ result = <<>>
    /\ calls = 0
    /\ raised = FALSE

Next ==
    \/ \E s \in SlugInputs, r \in RatingInputs, x \in BOOLEAN : create_rating(s, r, x)
    \/ \E l \in LimitInputs, x \in BOOLEAN : ratings_summary(l, x)
    \/ \E s \in QuerySlugs, x \in BOOLEAN : country_rating_stats(s, x)

Spec == Init /\ [][Next]_vars

InitValidate ==
    /\ db \in {"up", "none"}
    /\ store = EmptyBag
    /\ lastOp = "input"
    /\ lastArgs \in [country_slug : SlugDomain, rating : RatingDomain]
    /\ outcome = "ok"
    /\ result = <<>>
    /\ calls = 0
    /\ raised = FALSE

NextValidate == validate

SpecValidate == InitValidate /\ [][NextValidate]_vars

(***************************************************************************)
(* What the claims speak of, stated over the stored documents              *)
(***************************************************************************)
StoredSlugs == { d.country_slug : d \in DOMAIN store }

\* The number of stored records of a slug.
CountOf(slug) ==
    BagCardinality([d \in {x \in DOMAIN store : x.country_slug = slug} |-> store[d]])

RECURSIVE RatingTotal(_)
RatingTotal(D) ==
    IF D = {} THEN 0
    ELSE LET d == CHOOSE x \in D : TRUE
         IN  store[d] * d.rating + RatingTotal(D \ {d})

\* The sum of the ratings of the stored records of a slug.
SumOf(slug) == RatingTotal({d \in DOMAIN store : d.country_slug = slug})

\* a is the mean total / n rounded to a nearest thousandth.
IsRoundedMean(a, total, n) ==
    LET diff == a * n - total
    IN  2 * (IF diff < 0 THEN -diff ELSE diff) <= n

\* The rows a slug with records may be reported with.
RowsOf(slug) ==
    LET q == SumOf(slug) \div CountOf(slug)
    IN  { [country_slug |-> slug, count |-> CountOf(slug), avg |-> a]
          : a \in {x \in {q, q + 1} : IsRoundedMean(x, SumOf(slug), CountOf(slug))} }

\* The untruncated answers: one row per stored slug, descending by avg.
FullSummaries ==
    { f \in [1..Cardinality(StoredSlugs) -> UNION {RowsOf(s) : s \in StoredSlugs}] :
        /\ \A i, j \in DOMAIN f : i # j => f[i].country_slug # f[j].country_slug
        /\ \A i, j \in DOMAIN f : i < j => f[i].avg >= f[j].avg }

IsKebab(sv) ==
    sv # <<>> /\ \A i \in DOMAIN sv : sv[i] \in (97..122) \cup (48..57) \cup {45}

PositiveLimit == lastArgs.limit # <<>> /\ lastArgs.limit[1] > 0

SummaryAnswered == lastOp = "ratings_summary" /\ outcome = "ok"

StatsAnswered == lastOp = "country_rating_stats" /\ outcome = "ok"

RECURSIVE TotalCount(_)
TotalCount(rows) ==
    IF rows = <<>> THEN 0 ELSE Head(rows).count + TotalCount(Tail(rows))

ZeroStats == <<[country_slug |-> lastArgs.country_slug, count |-> 0, avg |-> 0]>>

(***************************************************************************)
(* Claims                                                                  *)
(***************************************************************************)

\* C1: a submitted slug that, trimmed and lowercased, is empty or holds a
\* character outside [a-z0-9-] fails validation and produces no submission
\* value.
C1_SlugOutsideKebabRejected ==
    (lastOp = "validate" /\ ~IsKebab(Lower(Strip(lastArgs.country_slug))))
        => (outcome = "validation_error" /\ result = <<>>)

\* C2: with a valid slug, validation succeeds exactly for the ratings of the
\* inclusive range [0, 5], 0 and 5 included, and fails below 0 and above 5.
C2_RatingRange ==
    (lastOp = "validate" /\ validate_slug(lastArgs.country_slug).ok)
        => /\ (lastArgs.rating < 0 \/ lastArgs.rating > 5000)
                => (outcome = "validation_error" /\ result = <<>>)
           /\ (lastArgs.rating >= 0 /\ lastArgs.rating <= 5000)
                => (outcome = "ok" /\ Len(result) = 1
                    /\ result[1].rating = lastArgs.rating)

C2_Witness ==
    /\ lastOp = "validate"
    /\ lastArgs.rating = 5000
    /\ lastArgs.country_slug = <<32, 70, 45, 50, 32>>
    /\ outcome = "ok"

\* C3: the stored records change only by an accepted submission, which adds
\* exactly one record with the normalized slug and the submitted rating; a
\* rejected or failed submission and both statistics reads leave them
\* unchanged; no record is ever modified or removed, so the record count of
\* every slug never decreases.
C3_AppendOnly ==
    [][ /\ \A d \in DOMAIN store : d \in DOMAIN store' /\ store'[d] >= store[d]
        /\ \A s \in StoredSlugs : CountOf(s)' >= CountOf(s)
        /\ IF lastOp' = "create_rating" /\ outcome' = "ok"
           THEN store' = store (+) SetToBag({
                    [country_slug |-> Lower(Strip(lastArgs'.country_slug)),
                     rating |-> lastArgs'.rating]})
           ELSE store' = store ]_vars

C3_Witness ==
    /\ lastOp = "create_rating"
    /\ outcome = "ok"
    /\ lastArgs.country_slug = <<32, 70, 45, 50, 32>>
    /\ CountOf(<<102, 45, 50>>) = 2
    /\ BagCardinality(store) = 3

\* C4 as stated: country_rating_stats on a slug with no stored record returns
\* the slug with count 0 and avg 0.0, and never an error.
C4_ZeroStatsNeverError ==
    (lastOp = "country_rating_stats" /\ CountOf(lastArgs.country_slug) = 0)
        => (outcome = "ok" /\ result = ZeroStats)

\* C4 as amended: when the storage collaborator is available and its query does
\* not raise, country_rating_stats on a slug with no stored record returns the
\* requested slug with count 0 and avg 0.0, and not an error.
C4_ZeroStatsWhenStorageAnswers ==
    (/\ lastOp = "country_rating_stats"
     /\ CountOf(lastArgs.country_slug) = 0
     /\ db = "up"
     /\ ~raised)
        => (outcome = "ok" /\ result = ZeroStats)

C4_Witness ==
    /\ StatsAnswered
    /\ lastArgs.country_slug = <<70, 45, 50>>
    /\ CountOf(<<102, 45, 50>>) >= 1
    /\ result = ZeroStats

\* C5: the unlimited result of ratings_summary holds exactly one entry for each
\* slug with at least one stored record and none for any other slug; the count
\* of an entry is the number of stored records of its slug, so it is at least
\* 1 and the counts sum to the number of stored records.
C5_OneEntryPerStoredSlug ==
    (SummaryAnswered /\ ~PositiveLimit)
        => /\ \A s \in StoredSlugs :
                Cardinality({i \in DOMAIN result : result[i].country_slug = s}) = 1
           /\ \A i \in DOMAIN result :
                /\ result[i].country_slug \in StoredSlugs
                /\ result[i].count = CountOf(result[i].country_slug)
                /\ result[i].count >= 1
           /\ TotalCount(result) = BagCardinality(store)

C5_Witness ==
    /\ SummaryAnswered
    /\ lastArgs.limit = <<>>
    /\ Len(result) = 2
    /\ \E i \in DOMAIN result : result[i].count = 2
    /\ \E d \in DOMAIN store : store[d] = 2

\* C6: for every limit, the sequence ratings_summary returns is sorted
\* descending by avg.
C6_SortedDescending ==
    SummaryAnswered
        => \A i, j \in DOMAIN result : i < j => result[i].avg >= result[j].avg

C6_Witness ==
    /\ SummaryAnswered
    /\ Len(result) = 3
    /\ result[1].avg = result[2].avg
    /\ result[2].avg > result[3].avg

\* C7: with a positive limit the result of ratings_summary has at most limit
\* elements and is a prefix of an untruncated ordered sequence; with the limit
\* absent, 0 or negative it is an untruncated sequence, one entry per stored
\* slug.
C7_LimitTruncates ==
    SummaryAnswered
        => IF PositiveLimit
           THEN /\ Len(result) <= lastArgs.limit[1]
                /\ \E full \in FullSummaries :
                     result = SubSeq(full, 1,
                        IF lastArgs.limit[1] < Len(full)
                        THEN lastArgs.limit[1] ELSE Len(full))
           ELSE /\ result \in FullSummaries
                /\ Len(result) = Cardinality(StoredSlugs)

C7_Witness ==
    /\ SummaryAnswered
    /\ lastArgs.limit = <<2>>
    /\ Cardinality(StoredSlugs) = 3
    /\ Len(result) = 2
    /\ result[1].avg > result[2].avg

\* C8 as stated: ratings_summary(limit=1) returns exactly one element, the one
\* with the highest avg among all slug groups.
C8_LimitOneReturnsOne ==
    (SummaryAnswered /\ lastArgs.limit = <<1>>)
        => /\ Len(result) = 1
           /\ \A s \in StoredSlugs :
                \E r \in RowsOf(s) : result[1].avg >= r.avg

\* C8 as amended: when at least one record is stored, ratings_summary(limit=1)
\* returns exactly one element, the row of a slug group of highest avg; when
\* no record is stored it returns the empty sequence.
C8_LimitOneReturnsTop ==
    (SummaryAnswered /\ lastArgs.limit = <<1>>)
        => IF store = EmptyBag
           THEN result = <<>>
           ELSE /\ Len(result) = 1
                /\ result[1].country_slug \in StoredSlugs
                /\ result[1] \in RowsOf(result[1].country_slug)
                /\ \A s \in StoredSlugs :
                     \E r \in RowsOf(s) : result[1].avg >= r.avg

C8_Witness ==
    /\ SummaryAnswered
    /\ lastArgs.limit = <<1>>
    /\ Cardinality(StoredSlugs) = 3
    /\ Len(result) = 1
    /\ \E d \in DOMAIN store : d.rating < result[1].avg

\* C9: for a slug with at least one stored record, country_rating_stats and the
\* entry of the slug in ratings_summary report count = the number of its
\* records and avg = the arithmetic mean of their ratings rounded to 3 decimal
\* places; records [2.0, 4.0] give count 2 and avg 3.0, records [1.0, 2.0, 2.0]
\* give avg 1.667.
C9_CountAndRoundedMean ==
    /\ (StatsAnswered /\ CountOf(lastArgs.country_slug) >= 1)
          => /\ Len(result) = 1
             /\ result[1].country_slug = lastArgs.country_slug
    /\ (StatsAnswered \/ SummaryAnswered)
          => \A i \in DOMAIN result :
               LET s == result[i].country_slug
                   docs == [d \in {x \in DOMAIN store : x.country_slug = s} |-> store[d]]
               IN  CountOf(s) >= 1 =>
                     /\ result[i].count = CountOf(s)
                     /\ IsRoundedMean(result[i].avg, SumOf(s), CountOf(s))
                     /\ docs = SetToBag({[country_slug |-> s, rating |-> 2000],
                                         [country_slug |-> s, rating |-> 4000]})
                          => (result[i].count = 2 /\ result[i].avg = 3000)
                     /\ docs = (SetToBag({[country_slug |-> s, rating |-> 1000]})
                                (+) SetToBag({[country_slug |-> s, rating |-> 2000]})
                                (+) SetToBag({[country_slug |-> s, rating |-> 2000]}))
                          => (result[i].count = 3 /\ result[i].avg = 1667)

C9_Witness ==
    /\ StatsAnswered
    /\ store = (SetToBag({[country_slug |-> <<114>>, rating |-> 1000]})
                (+) SetToBag({[country_slug |-> <<114>>, rating |-> 2000]})
                (+) SetToBag({[country_slug |-> <<114>>, rating |-> 2000]}))
    /\ result = <<[country_slug |-> <<114>>, count |-> 3, avg |-> 1667]>>

\* C10: when the storage collaborator is unavailable (db is None) or its call
\* raises, create_rating, ratings_summary and country_rating_stats end in an
\* error after at most one storage call, never in a success value:
\* country_rating_stats does not answer the zero-count result and a failed
\* create_rating reports no creation identity.
C10_StorageFailureIsError ==
    /\ calls <= 1
    /\ (/\ lastOp \in {"create_rating", "ratings_summary", "country_rating_stats"}
        /\ (db = "none" \/ raised))
          => (outcome # "ok" /\ result = <<>>)

C10_Witness ==
    /\ lastOp = "country_rating_stats"
    /\ db = "up"
    /\ raised
    /\ calls = 1
    /\ CountOf(lastArgs.country_slug) = 0
    /\ outcome = "http_500"

====
